---- MODULE Spec2Model ----
(***************************************************************************)
(* ConvoKit redirection pipeline: the two context selectors of             *)
(* convokit/redirection/contextSelector.py and the scorer and aggregator   *)
(* of convokit/redirection/gemmaLikelihoodModel.py.                        *)
(*                                                                         *)
(* One call is executed at a time, statement by statement.  `env` is the   *)
(* frame of the running call: the names bound so far and their values.  A  *)
(* statement that reads a name bound neither in the frame, nor in the      *)
(* module's globals, nor in the builtins raises NameError, as CPython      *)
(* does; the call then ends with status "raised".                          *)
(*                                                                         *)
(* Python strings are TLA+ strings, lists and tuples are sequences, dicts  *)
(* are functions, None is the empty sequence.                              *)
(***************************************************************************)
EXTENDS Integers, Sequences, FiniteSets, TLC

VARIABLES fn, pc, env, status, exc

vars == <<fn, pc, env, status, exc>>

\* ------------------------------------------------------------------ bounds
MaxUtts == 4
MaxConvs == 2
MaxSeqLen == 3

\* ------------------------------------------------------- values and inputs
None == << >>

EmptyDict == [k \in {} |-> None]

Roles == {"a", "ab", "c"}

IdOf(i) == "u" \o ToString(i)

TextOf(i) == "t" \o ToString(i)

\* A conversation, as get_chronological_utterance_list() returns it: the
\* utterances in chronological order, each with an id, a text and meta["role"].
Utterance(i, r) == [id |-> IdOf(i), text |-> TextOf(i), role |-> r]

Convos ==
  UNION { { [i \in 1..n |-> Utterance(i, rs[i])] : rs \in [1..n -> Roles] } : n \in 0..MaxUtts }

\* ------------------------------------------------------------ name lookup
Builtins == {"list", "range", "len", "enumerate", "sum", "print"}

ContextSelectorGlobals ==
  {"default_speaker_prefixes", "default_previous_context_selector",
   "default_future_context_selector"}

GemmaGlobals ==
  {"LikelihoodModel", "torch", "LoraConfig", "get_peft_model", "AutoPeftModelForCausalLM",
   "PeftModel", "AutoTokenizer", "AutoModelForCausalLM", "BitsAndBytesConfig",
   "DataCollatorForLanguageModeling", "TrainingArguments", "SFTTrainer",
   "DEFAULT_TRAIN_CONFIG", "DEFAULT_BNB_CONFIG", "DEFAULT_LORA_CONFIG",
   "GemmaLikelihoodModel"}

ModuleGlobals(f) ==
  IF f \in {"prev", "future"} THEN ContextSelectorGlobals ELSE GemmaGlobals

\* LEGB lookup of a bare name in the running frame.
Resolves(name) == name \in (DOMAIN env) \cup ModuleGlobals(fn) \cup Builtins

Raise(e) ==
  /\ status' = "raised"
  /\ exc' = e
  /\ UNCHANGED <<fn, pc, env>>

Goto(l) ==
  /\ pc' = l
  /\ UNCHANGED <<fn, status, exc>>

\* --------------------------------------------------- contextSelector.py
RequiredRoles == 2

RoleSet(utts) == {utts[i].role : i \in DOMAIN utts}

\* list(a_set): the set's elements in some order, each once.
ListsOf(S) ==
  { l \in [1..Cardinality(S) -> S] : \A x \in S : \E i \in DOMAIN l : l[i] = x }

\* preprocessing.default_speaker_prefixes is not part of these sources: one
\* prefix per role, distinct for distinct roles, for any number of roles.
PrefixPool == <<"A: ", "B: ", "C: ", "D: ", "E: ", "F: ">>

default_speaker_prefixes(roles) == [i \in 1..Len(roles) |-> PrefixPool[i]]

RoleToPrefix(roles, spk_prefixes) ==
  [r \in {roles[i] : i \in DOMAIN roles} |->
     spk_prefixes[CHOOSE i \in DOMAIN roles : roles[i] = r]]

\* The assertion weakened to "at least two roles".
RoleCountAtLeast(roles) == Len(roles) >= RequiredRoles

RoleCountOk(roles) == Len(roles) = RequiredRoles

Call(f, args) ==
  /\ status # "running"
  /\ fn' = f
  /\ env' = args
  /\ status' = "running"
  /\ exc' = "none"

Prev_Call ==
  /\ \E convo \in Convos : Call("prev", [convo |-> convo])
  /\ pc' = 4

\* lines 4-9
Prev_Setup ==
  /\ fn = "prev" /\ status = "running" /\ pc = 4
  /\ \E roles \in ListsOf(RoleSet(env.convo)) :
       LET spk_prefixes == default_speaker_prefixes(roles) IN
       env' = [actual_contexts |-> EmptyDict,
               reference_contexts |-> EmptyDict,
               utts |-> env.convo,
               roles |-> roles,
               spk_prefixes |-> spk_prefixes,
               role_to_prefix |-> RoleToPrefix(roles, spk_prefixes)] @@ env
  /\ Goto(10)

\* line 10
Prev_Assert ==
  /\ fn = "prev" /\ status = "running" /\ pc = 10
  /\ IF RoleCountOk(env.roles)
       THEN Goto(11) /\ UNCHANGED env
       ELSE Raise("AssertionError")

\* line 11: role_1 = role[0].  No statement binds `role` (line 7 binds `roles`),
\* so the lookup fails and lines 12-49 are never executed.
Prev_Role1 ==
  /\ fn = "prev" /\ status = "running" /\ pc = 11
  /\ ~Resolves("role")
  /\ Raise("NameError")

Future_Call ==
  /\ \E convo \in Convos : Call("future", [convo |-> convo])
  /\ pc' = 53

\* lines 53-59
Future_Setup ==
  /\ fn = "future" /\ status = "running" /\ pc = 53
  /\ \E roles \in ListsOf(RoleSet(env.convo)) :
       LET spk_prefixes == default_speaker_prefixes(roles) IN
       env' = [future_contexts |-> EmptyDict,
               cur_1 |-> None,
               cur_2 |-> None,
               utts |-> env.convo,
               roles |-> roles,
               spk_prefixes |-> spk_prefixes,
               role_to_prefix |-> RoleToPrefix(roles, spk_prefixes)] @@ env
  /\ Goto(60)

\* line 60
Future_Assert ==
  /\ fn = "future" /\ status = "running" /\ pc = 60
  /\ IF RoleCountOk(env.roles)
       THEN Goto(61) /\ UNCHANGED env
       ELSE Raise("AssertionError")

\* line 61: role_1 = role[0].  As at line 11; lines 62-80 are never executed.
Future_Role1 ==
  /\ fn = "future" /\ status = "running" /\ pc = 61
  /\ ~Resolves("role")
  /\ Raise("NameError")

\* ------------------------------------------------ gemmaLikelihoodModel.py
DefaultVerbosity == 5

AggIds == {IdOf(1), IdOf(2)}

PrevEntry(id) == <<"A: before " \o id, "B: " \o id>>

FutureEntry(id) == <<"A: after " \o id>>

\* One conversation's previous-context maps and future-context maps, as the
\* selectors hand them over: utterance id -> list of prefixed texts.
PrevMaps == { [id \in D |-> PrevEntry(id)] : D \in SUBSET AggIds }

FutureMaps == { [id \in D |-> FutureEntry(id)] : D \in SUBSET AggIds }

\* test_data = (prev_contexts, future_contexts), one map per conversation each.
TestData ==
  UNION { { <<p, f>> : p \in [1..n -> PrevMaps], f \in [1..n -> FutureMaps] } : n \in 0..MaxConvs }

Transform_Call ==
  /\ \E td \in TestData, v \in {1, DefaultVerbosity} :
       Call("transform", [test_data |-> td, verbosity |-> v])
  /\ pc' = 93

\* lines 93-94
Transform_Unpack ==
  /\ fn = "transform" /\ status = "running" /\ pc = 93
  /\ env' = [prev_contexts |-> env.test_data[1],
             future_contexts |-> env.test_data[2],
             likelihoods |-> << >>] @@ env
  /\ Goto(95)

\* line 95: for i, convo in enumerate(len(test_data)).  len() of the pair is
\* an int, and enumerate() of an int raises TypeError; lines 96-110 are never
\* executed.
Transform_Loop ==
  /\ fn = "transform" /\ status = "running" /\ pc = 95
  /\ Len(env.test_data) \in Nat
  /\ Raise("TypeError")

RECURSIVE Join(_, _)
\* sep.join(parts)
Join(sep, parts) ==
  IF parts = << >> THEN ""
  ELSE IF Len(parts) = 1 THEN parts[1]
  ELSE parts[1] \o sep \o Join(sep, Tail(parts))

Fragments == {"A: t1", "B: t2"}

PastContexts == UNION { [1..n -> Fragments] : n \in 0..2 }

FutureContexts == UNION { [1..n -> Fragments] : n \in 0..1 }

Score_Call ==
  /\ \E past \in PastContexts, future \in FutureContexts, m \in 1..MaxSeqLen :
       Call("score", [self |-> [max_length |-> m],
                      past_context |-> past,
                      future_context |-> future])
  /\ pc' = 69

\* lines 69-70
Score_Join ==
  /\ fn = "score" /\ status = "running" /\ pc = 69
  /\ env' = [past_context |-> Join("\n\n", env.past_context),
             future_context |-> Join("\n\n", env.future_context)] @@ env
  /\ Goto(72)

\* line 72: context_ids = tokenizer.encode(...).  The tokenizer is the attribute
\* self.tokenizer (line 25); the bare name is bound nowhere, so the lookup fails
\* and lines 75-90 are never executed.
Score_EncodePast ==
  /\ fn = "score" /\ status = "running" /\ pc = 72
  /\ ~Resolves("tokenizer")
  /\ Raise("NameError")

Init ==
  /\ fn = "none"
  /\ pc = 0
  /\ env = EmptyDict
  /\ status = "idle"
  /\ exc = "none"

Next ==
  \/ Prev_Call
  \/ Prev_Setup
  \/ Prev_Assert
  \/ Prev_Role1
  \/ Future_Call
  \/ Future_Setup
  \/ Future_Assert
  \/ Future_Role1
  \/ Transform_Call
  \/ Transform_Unpack
  \/ Transform_Loop
  \/ Score_Call
  \/ Score_Join
  \/ Score_EncodePast

Spec == Init /\ [][Next]_vars

\* ================================================================ claims
Finished(f) == fn = f /\ status \in {"returned", "raised"}

SelectorCall == fn \in {"prev", "future"} /\ status # "idle"

RoleCount == Cardinality(RoleSet(env.convo))

\* Both roles of the conversation have spoken before utterance i.
BothSpokenBefore(c, i) == Cardinality({c[j].role : j \in 1..(i - 1)}) = 2

\* The later utterances spoken by the other role than utterance i's.
LaterOpposite(c, i) == {j \in DOMAIN c : j > i /\ c[j].role # c[i].role}

\* The earlier utterances spoken by the other role than utterance i's.
EarlierOpposite(c, i) == {j \in DOMAIN c : j < i /\ c[j].role # c[i].role}

Min(S) == CHOOSE x \in S : \A y \in S : x <= y

Max(S) == CHOOSE x \in S : \A y \in S : x >= y

\* The utterance's text behind the prefix of its role.
Prefixed(u) == env.role_to_prefix[u.role] \o u.text

\* The first utterance of role r, as the (text, role) pair a slot holds.
EarliestOf(c, r) ==
  LET i == Min({j \in DOMAIN c : c[j].role = r}) IN <<c[i].text, c[i].role>>

AssertLine(f) == IF f = "prev" THEN 10 ELSE 60

\* C1: default_previous_context_selector, on a conversation with exactly two
\* roles, completes and gives no entry, in actual_contexts or in
\* reference_contexts, to an utterance that comes before both roles have spoken.
C1_EarlyUtterancesSkipped ==
  (Finished("prev") /\ RoleCount = 2) =>
    /\ status = "returned"
    /\ \A i \in DOMAIN env.convo :
         ~BothSpokenBefore(env.convo, i) =>
           /\ env.convo[i].id \notin DOMAIN env.actual_contexts
           /\ env.convo[i].id \notin DOMAIN env.reference_contexts

\* C2: default_future_context_selector, on a conversation with exactly two
\* roles, gives utterance u an entry exactly when a later utterance is spoken by
\* the other role, and the entry is the one-element list of the prefixed text of
\* the nearest such utterance.
C2_NearestFutureOpposite ==
  (Finished("future") /\ RoleCount = 2) =>
    /\ status = "returned"
    /\ \A i \in DOMAIN env.convo :
         LET later == LaterOpposite(env.convo, i)
             id == env.convo[i].id
         IN /\ (id \in DOMAIN env.future_contexts) <=> (later # {})
            /\ later # {} =>
                 env.future_contexts[id] = <<Prefixed(env.convo[Min(later)])>>

\* C3: the keys of each conversation's mapping in transform's output are the ids
\* that are both in its previous-context map and in its future-context map.
C3_OutputKeysAreIntersection ==
  Finished("transform") =>
    /\ status = "returned"
    /\ \A c \in DOMAIN env.test_data[1] :
         /\ c \in DOMAIN env.likelihoods
         /\ DOMAIN env.likelihoods[c] =
              (DOMAIN env.test_data[1][c]) \cap (DOMAIN env.test_data[2][c])

\* C4: transform, given N conversations, returns exactly N mappings, the i-th
\* one made from prev_contexts[i] and future_contexts[i].
C4_OneMappingPerConversation ==
  Finished("transform") =>
    /\ status = "returned"
    /\ Len(env.likelihoods) = Len(env.test_data[1])
    /\ \A c \in DOMAIN env.likelihoods :
         DOMAIN env.likelihoods[c] \subseteq DOMAIN env.test_data[1][c]

\* C5: _calculate_likelihood_prob never fails on overflow: when the past and the
\* future tokens together exceed max_length, the input is cut from the left to
\* exactly max_length tokens and ends with the future tokens unmodified.
C5_LeftTruncationKeepsFuture ==
  Finished("score") =>
    /\ status = "returned"
    /\ LET M == env.self.max_length
           k == Len(env.future_ids)
           n == Len(env.input_ids)
       IN (Len(env.context_ids) + k > M) =>
            /\ n = M
            /\ SubSeq(env.input_ids, n - k + 1, n) = env.future_ids

\* C7: for the conversation [A1, B1, A2, B2] the previous-context map has
\* entries for A2 and B2 only, and the future-context map has entries for A1
\* (B1's prefixed text) and B1 (A2's prefixed text) and none for A2 and B2.
C7_FourUtteranceScenario ==
  LET c == env.convo IN
  (SelectorCall /\ Len(c) = 4 /\ c[1].role # c[2].role
     /\ c[3].role = c[1].role /\ c[4].role = c[2].role) =>
    /\ Finished("prev") =>
         /\ status = "returned"
         /\ DOMAIN env.actual_contexts = {c[3].id, c[4].id}
         /\ DOMAIN env.reference_contexts = {c[3].id, c[4].id}
    /\ Finished("future") =>
         /\ status = "returned"
         /\ DOMAIN env.future_contexts = {c[1].id, c[2].id}
         /\ env.future_contexts[c[1].id] = <<Prefixed(c[2])>>
         /\ env.future_contexts[c[2].id] = <<Prefixed(c[3])>>

\* C8: for a future span of k tokens the result sums exactly k log-probabilities
\* and each is read at a valid non-negative position of the input, the one just
\* before the token: i + (len(input) - len(future)) - 1.
C8_IndexIsValidPosition ==
  Finished("score") =>
    /\ status = "returned"
    /\ LET k == Len(env.future_ids)
           n == Len(env.input_ids)
       IN /\ Len(env.cond_log_probs) = k
          /\ \A i \in 0..(k - 1) :
               /\ 0 <= i + (n - k) - 1
               /\ i + (n - k) - 1 < n

C10_SlotOfOwnRole ==
  (Finished("future") /\ RoleCount = 2) =>
    /\ status = "returned"
    /\ env.cur_1 = EarliestOf(env.convo, env.roles[1])
    /\ env.cur_2 = EarliestOf(env.convo, env.roles[2])

\* C6: on a conversation whose role set has a size other than 2, both selectors
\* stop at the role-count assertion: the call never gets past it, it ends by
\* raising AssertionError there, and it returns no map.
C6_RoleCountPrecondition ==
  (SelectorCall /\ RoleCount # 2) =>
    /\ pc <= AssertLine(fn)
    /\ status # "returned"
    /\ status = "raised" => (exc = "AssertionError" /\ pc = AssertLine(fn))

\* A selector has raised at its assertion on a conversation of three roles.
C6_Witness ==
  /\ fn = "future"
  /\ status = "raised"
  /\ exc = "AssertionError"
  /\ pc = AssertLine(fn)
  /\ RoleCount = 3

====
